---- MODULE Spec2Model ----
\* Model of cust_invoice_rename.py: the command-line driver, the wildcard
\* resolver, the in-file scanner and the renamer, over a small file system.
\*
\* A string is a sequence of symbols.  A symbol is one character, except for
\* two chunks that stand for runs of letters no operation of the program looks
\* inside: "CAN" is the text `Customer Acct Number` and "/RN" is the text
\* `/ReferenceNumbers`.  A path of the file system is the string pathlib prints
\* for it (relative to the working directory, "." components and doubled
\* separators removed).
\*
\* What the platform decides is left open: a rename onto an existing file
\* either replaces it (POSIX) or raises (Windows), chosen by `replaces`; and
\* os.listdir enumerates a directory in any order, the same order again as
\* long as the directory holds the same names.  Paths are parsed as POSIX
\* paths.  An uncaught exception ends the program with exit status 1.
EXTENDS Integers, Sequences, FiniteSets, TLC

VARIABLES
    fs,        \* the files: normalised path -> [id, kind]
    argv,      \* the positional arguments as typed
    verbose,   \* args.verbose
    replaces,  \* TRUE: rename onto an existing file replaces it (POSIX); FALSE: it raises (Windows)
    files,     \* args.files after read_cli
    i,         \* index of the next entry of args.files the loop takes
    pc,        \* "start" | "loop" | "exited"
    status,    \* the exit status once pc = "exited"
    run,       \* 1 in the first invocation, 2 in its repetition
    fs0,       \* the files before the first invocation
    fsRun1,    \* the files when the first invocation ended
    scanned,   \* what file_load_and_search did in the latest loop iteration
    renames,   \* the renames performed, in order, over both invocations
    failed,    \* indices of args.files (this invocation) whose processing failed
    listed     \* the latest enumeration os.listdir gave

vars == <<fs, argv, verbose, replaces, files, i, pc, status, run, fs0, fsRun1,
          scanned, renames, failed, listed>>

\* ---------------------------------------------------------------- bounds

MaxArgs == 2
MaxFiles == 2

\* ---------------------------------------------------------------- strings

NL == "\n"
SEP == "/"
DOT == "."
STAR == "*"
QMARK == "?"
GT == ">"
LT == "<"
USCORE == "_"

CUST_ACCT_SEARCH_STR == <<"CAN">>
END_SEEK_MARKER == <<"<", "/RN", ">">>

\* t occurs in s at position k
OccursAt(s, t, k) ==
    /\ k + Len(t) - 1 <= Len(s)
    /\ \A j \in 1..Len(t) : s[k + j - 1] = t[j]

\* Python's `t in s` for strings
Contains(s, t) == \E k \in 1..(Len(s) - Len(t) + 1) : OccursAt(s, t, k)

\* index of the first c in s, 0 when there is none
FindChar(s, c) ==
    IF \E k \in 1..Len(s) : s[k] = c
    THEN CHOOSE k \in 1..Len(s) : s[k] = c /\ \A j \in 1..(k - 1) : s[j] # c
    ELSE 0

\* index of the last c in s, 0 when there is none
RFindChar(s, c) ==
    IF \E k \in 1..Len(s) : s[k] = c
    THEN CHOOSE k \in 1..Len(s) : s[k] = c /\ \A j \in (k + 1)..Len(s) : s[j] # c
    ELSE 0

\* Python's s.split(c) for a one-character separator
RECURSIVE Split(_, _)
Split(s, c) ==
    LET k == FindChar(s, c) IN
    IF k = 0 THEN <<s>>
    ELSE <<SubSeq(s, 1, k - 1)>> \o Split(SubSeq(s, k + 1, Len(s)), c)

\* Python's s.replace(old, "") for a non-empty old: every non-overlapping
\* occurrence, left to right, is removed
RECURSIVE RemoveAll(_, _)
RemoveAll(s, old) ==
    IF s = <<>> THEN <<>>
    ELSE IF OccursAt(s, old, 1) THEN RemoveAll(SubSeq(s, Len(old) + 1, Len(s)), old)
    ELSE <<s[1]>> \o RemoveAll(Tail(s), old)

\* fnmatch.fnmatch(name, pat) for patterns of literal characters, * and ?
RECURSIVE fnmatch(_, _)
fnmatch(name, pat) ==
    IF pat = <<>> THEN name = <<>>
    ELSE IF pat[1] = STAR
         THEN \/ fnmatch(name, Tail(pat))
              \/ name # <<>> /\ fnmatch(Tail(name), pat)
    ELSE /\ name # <<>>
         /\ pat[1] = QMARK \/ pat[1] = name[1]
         /\ fnmatch(Tail(name), Tail(pat))

\* ---------------------------------------------------------------- pathlib

RECURSIVE JoinParts(_)
JoinParts(parts) ==
    IF parts = <<>> THEN <<>>
    ELSE IF Len(parts) = 1 THEN parts[1]
    ELSE parts[1] \o <<SEP>> \o JoinParts(Tail(parts))

IsPart(c) == c # <<>> /\ c # <<DOT>>

\* the components pathlib keeps of a path string
PathParts(s) == SelectSeq(Split(s, SEP), IsPart)

IsAbsolute(s) == s # <<>> /\ s[1] = SEP

\* str(PurePosixPath) of a root flag and components
PathStr(abs, parts) ==
    IF parts = <<>> THEN (IF abs THEN <<SEP>> ELSE <<DOT>>)
    ELSE (IF abs THEN <<SEP>> ELSE <<>>) \o JoinParts(parts)

\* str(Path(s))
PathOf(s) == PathStr(IsAbsolute(s), PathParts(s))

\* Path(s).name
PathName(s) ==
    LET parts == PathParts(s) IN
    IF parts = <<>> THEN <<>> ELSE parts[Len(parts)]

\* str(Path(s).parent)
PathParent(s) ==
    LET parts == PathParts(s) IN
    IF parts = <<>> THEN PathStr(IsAbsolute(s), <<>>)
    ELSE PathStr(IsAbsolute(s), SubSeq(parts, 1, Len(parts) - 1))

\* Path(s).suffix: from the last dot of the name, unless that dot is the
\* first or the last character of the name
PathSuffix(s) ==
    LET nm == PathName(s)
        k  == RFindChar(nm, DOT)
    IN IF 1 < k /\ k < Len(nm) THEN SubSeq(nm, k, Len(nm)) ELSE <<>>

\* Path(s).stem
PathStem(s) ==
    LET nm == PathName(s)
        k  == RFindChar(nm, DOT)
    IN IF 1 < k /\ k < Len(nm) THEN SubSeq(nm, 1, k - 1) ELSE nm

\* str(Path(parent, child)): an absolute child drops the parent
PathJoin(parent, child) ==
    IF IsAbsolute(child) THEN PathOf(child)
    ELSE PathOf(parent \o <<SEP>> \o child)

\* ---------------------------------------------------------------- file contents

\* lines of an invoice file (without the newline readline appends)
PlainLine == <<"<", "h", ">">>
BlankLine == <<>>
\* <r CAN>T</r>: the marker inside the opening tag, the value after it
AttrLine(T) == <<"<", "r", "CAN", ">">> \o T \o <<"<", "/", "r", ">">>
\* <X>CAN</X><Y>V</Y>: the marker as an element's text, the value in the next element
ElemLine(V) == <<"<", "X", ">", "CAN", "<", "/", "X", ">", "<", "Y", ">">> \o V \o <<"<", "/", "Y", ">">>

\* the marker with no tag around it
BareLine == <<"CAN">>

TokA == <<"A">>
TokD == <<"d">>
TokDotSep == <<".", "/">>
TokDSep == <<"d", "/">>

Kinds == {"attrA", "stopAttrA", "elemStop", "elemA", "attrD", "attrDotSep",
          "attrDSep", "adjacent", "bare", "attrAStop"}

Contents(k) ==
    CASE k = "attrA"      -> <<PlainLine, AttrLine(TokA), END_SEEK_MARKER>>
      [] k = "stopAttrA"  -> <<END_SEEK_MARKER, AttrLine(TokA)>>
      [] k = "elemStop"   -> <<ElemLine(TokA) \o END_SEEK_MARKER>>
      [] k = "elemA"      -> <<BlankLine, ElemLine(TokA), END_SEEK_MARKER>>
      [] k = "attrD"      -> <<AttrLine(TokD)>>
      [] k = "attrDotSep" -> <<AttrLine(TokDotSep)>>
      [] k = "attrDSep"   -> <<AttrLine(TokDSep)>>
      [] k = "adjacent"   -> <<AttrLine(<<>>), AttrLine(TokA)>>
      [] k = "bare"       -> <<PlainLine, BareLine, AttrLine(TokA)>>
      [] k = "attrAStop"  -> <<AttrLine(TokA) \o END_SEEK_MARKER>>

\* ---------------------------------------------------------------- file system

\* the directories; none is created or removed
Dirs == {<<".">>, <<"d">>}

\* infile.readline() as the k-th read: the line with its newline, "" at end of file
readline(lines, k) == IF k <= Len(lines) THEN lines[k] \o <<NL>> ELSE <<>>

\* os.listdir(dir): the names of the files and directories directly in dir
listdir(f, dir) ==
    {PathName(p) : p \in {q \in DOMAIN f : PathParent(q) = PathOf(dir)}}
    \cup {PathName(d) : d \in {e \in Dirs : e # <<".">> /\ PathParent(e) = PathOf(dir)}}

Range(q) == {q[k] : k \in 1..Len(q)}

\* the orders in which a set can be enumerated
Orderings(S) ==
    {o \in [1..Cardinality(S) -> S] : \A a, b \in 1..Cardinality(S) : a # b => o[a] # o[b]}

\* os.rename(src, dst) on files f: the files afterwards, or that it raised
os_rename(f, src, dst, repl) ==
    IF \/ src \notin DOMAIN f
       \/ PathParent(dst) \notin Dirs
       \/ dst \in Dirs
       \/ dst \in DOMAIN f /\ ~repl
    THEN [raised |-> TRUE, fs |-> f]
    ELSE [raised |-> FALSE,
          fs |-> [p \in (DOMAIN f \ {src}) \cup {dst} |-> IF p = dst THEN f[src] ELSE f[p]]]

\* ---------------------------------------------------------------- the program

\* the while loop of file_load_and_search from the k-th readline on
RECURSIVE scan_loop(_, _, _)
scan_loop(verb, lines, k) ==
    LET data == readline(lines, k) IN
    IF data = <<>> THEN [cust_name |-> <<>>, last |-> k - 1, raised |-> FALSE]
    ELSE IF Contains(data, END_SEEK_MARKER) /\ verb
         THEN [cust_name |-> <<>>, last |-> k, raised |-> FALSE]
    ELSE IF Contains(data, CUST_ACCT_SEARCH_STR)
         THEN LET parts == Split(data, GT) IN
              IF Len(parts) < 2
              THEN [cust_name |-> <<>>, last |-> k, raised |-> TRUE]
              ELSE [cust_name |-> Split(parts[2], LT)[1], last |-> k, raised |-> FALSE]
    ELSE scan_loop(verb, lines, k + 1)

\* file_load_and_search(args, fn) on files f: the token, the number of the
\* last line read, and whether the try block raised
file_load_and_search(verb, f, fn) ==
    IF PathOf(fn) \notin DOMAIN f
    THEN [cust_name |-> <<>>, last |-> 0, raised |-> TRUE]
    ELSE scan_loop(verb, Contents(f[PathOf(fn)].kind), 1)

\* file_rename joining the token and the basename with nothing between them
rename_target_unjoined(fn, name) ==
    PathJoin(PathParent(fn), name \o PathStem(fn) \o PathSuffix(fn))

\* the name file_rename moves fn to
rename_target(fn, name) ==
    PathJoin(PathParent(fn), name \o <<USCORE>> \o PathStem(fn) \o PathSuffix(fn))

\* file_rename(args, fn, name) on files f
file_rename(f, fn, name, repl) ==
    IF Contains(fn, name)
    THEN [raised |-> FALSE, fs |-> f, renamed |-> FALSE]
    ELSE LET r == os_rename(f, PathOf(fn), rename_target(fn, name), repl) IN
         [raised |-> r.raised, fs |-> r.fs, renamed |-> ~r.raised]

\* resolve_windows_path: the directory string it lists and the pattern it matches
match_search_info(path) == PathStem(path) \o PathSuffix(path)
corrected_path(path) ==
    LET c == RemoveAll(path, match_search_info(path)) IN
    IF c = <<>> THEN <<DOT>> ELSE c

\* resolve_windows_path(args, path) when os.listdir enumerates the directory
\* in the order `listing`
resolve_windows_path(path, listing) ==
    LET dir == corrected_path(path)
        hit == SelectSeq(listing, LAMBDA c : fnmatch(c, match_search_info(path)))
    IN [k \in 1..Len(hit) |-> dir \o hit[k]]

\* ---------------------------------------------------------------- states

InitPaths == {<<"a", ".", "x">>, <<"d", "/", "a", ".", "x">>, <<"A", "_", "a", ".", "x">>}

ArgPaths == InitPaths \cup {<<"_", "a", ".", "x">>, <<"*">>, <<".", "/", "*">>,
                            <<"d", "/", "*", ".", "x">>, <<"e", "/", "*">>}

NoScan == [fn |-> <<>>, cust_name |-> <<>>, last |-> 0, raised |-> FALSE, renamed |-> FALSE,
           aborted |-> FALSE, lines |-> <<>>]

\* the states before an invocation whose argument list is drawn from argLists
InitWith(argLists) ==
    /\ \E S \in {T \in SUBSET InitPaths : Cardinality(T) <= MaxFiles} :
         \E k \in [S -> Kinds] :
            fs = [p \in S |-> [id |-> p, kind |-> k[p]]]
    /\ argv \in argLists
    /\ verbose \in BOOLEAN
    /\ replaces \in BOOLEAN
    /\ files = <<>>
    /\ i = 1
    /\ pc = "start"
    /\ status = 0
    /\ run = 1
    /\ fs0 = fs
    /\ fsRun1 = fs
    /\ scanned = NoScan
    /\ renames = <<>>
    /\ failed = {}
    /\ listed = <<>>

Init == InitWith(UNION {[1..n -> ArgPaths] : n \in 0..MaxArgs})

\* the invocations with exactly one positional argument
InitOnePath == InitWith([1..1 -> ArgPaths])

\* read_cli(): the argument check and the wildcard expansion
read_cli ==
    /\ pc = "start"
    /\ IF Len(argv) <= 0
       THEN /\ pc' = "exited"
            /\ status' = -1
            /\ files' = argv
            /\ listed' = listed
       ELSE IF Len(argv) = 1 /\ Contains(argv[1], <<STAR>>)
       THEN IF PathOf(corrected_path(argv[1])) \notin Dirs
            THEN /\ pc' = "exited"
                 /\ status' = 1
                 /\ files' = argv
                 /\ listed' = listed
            ELSE /\ \E o \in Orderings(listdir(fs, corrected_path(argv[1]))) :
                      /\ listdir(fs, corrected_path(argv[1])) = Range(listed) => o = listed
                      /\ listed' = o
                      /\ files' = resolve_windows_path(argv[1], o)
                 /\ pc' = "loop"
                 /\ status' = status
       ELSE /\ files' = argv
            /\ pc' = "loop"
            /\ status' = status
            /\ listed' = listed
    /\ i' = 1
    /\ UNCHANGED <<fs, argv, verbose, replaces, run, fs0, fsRun1, scanned, renames, failed>>

\* one iteration of the loop of __main__ on files f: the scan of fn and, on a
\* non-empty token, the rename; aborted when file_rename raised (nothing
\* catches it)
loop_body(verb, f, fn, repl) ==
    LET s == file_load_and_search(verb, f, fn)
        r == file_rename(f, fn, s.cust_name, repl)
    IN IF s.cust_name = <<>>
       THEN [fs |-> f, cust_name |-> s.cust_name, last |-> s.last, scan_raised |-> s.raised,
             renamed |-> FALSE, aborted |-> FALSE]
       ELSE [fs |-> r.fs, cust_name |-> s.cust_name, last |-> s.last, scan_raised |-> s.raised,
             renamed |-> r.renamed, aborted |-> r.raised]

\* the whole loop of __main__ from entry k of the list on: the files and the
\* exit status it ends with
RECURSIVE main_loop(_, _, _, _, _)
main_loop(verb, f, list, k, repl) ==
    IF k > Len(list) THEN [fs |-> f, status |-> 0]
    ELSE LET b == loop_body(verb, f, list[k], repl) IN
         IF b.aborted THEN [fs |-> f, status |-> 1]
         ELSE main_loop(verb, b.fs, list, k + 1, repl)

process_file ==
    /\ pc = "loop"
    /\ i <= Len(files)
    \* fn and b are bound once: the entry taken and what the iteration does with it
    /\ \E fn \in {files[i]} : \E b \in {loop_body(verbose, fs, fn, replaces)} :
          /\ scanned' = [fn |-> fn, cust_name |-> b.cust_name, last |-> b.last,
                         raised |-> b.scan_raised, renamed |-> b.renamed,
                         aborted |-> b.aborted,
                         lines |-> IF PathOf(fn) \in DOMAIN fs
                                   THEN Contents(fs[PathOf(fn)].kind) ELSE <<>>]
          /\ fs' = b.fs
          /\ renames' = IF b.renamed
                        THEN Append(renames, [id |-> fs[PathOf(fn)].id, fn |-> fn,
                                              src |-> PathOf(fn),
                                              dst |-> rename_target(fn, b.cust_name),
                                              name |-> b.cust_name, run |-> run])
                        ELSE renames
          /\ failed' = IF b.scan_raised \/ b.aborted THEN failed \cup {i} ELSE failed
          /\ IF b.aborted
             THEN pc' = "exited" /\ status' = 1 /\ i' = i
             ELSE pc' = pc /\ status' = status /\ i' = i + 1
    /\ UNCHANGED <<argv, verbose, replaces, files, run, fs0, fsRun1, listed>>

\* the end of __main__: exit(0)
main_exit ==
    /\ pc = "loop"
    /\ i > Len(files)
    /\ pc' = "exited"
    /\ status' = 0
    /\ UNCHANGED <<fs, argv, verbose, replaces, files, i, run, fs0, fsRun1, scanned,
                   renames, failed, listed>>

\* the same command line is run a second time
rerun ==
    /\ pc = "exited"
    /\ run = 1
    /\ run' = 2
    /\ fsRun1' = fs
    /\ pc' = "start"
    /\ status' = 0
    /\ files' = <<>>
    /\ i' = 1
    /\ scanned' = NoScan
    /\ failed' = {}
    /\ UNCHANGED <<fs, argv, verbose, replaces, fs0, renames, listed>>

Next == read_cli \/ process_file \/ main_exit \/ rerun

Spec == Init /\ [][Next]_vars

SpecOnePath == InitOnePath /\ [][Next]_vars

\* ---------------------------------------------------------------- claims

HasStop(line) == Contains(line, END_SEEK_MARKER)
HasSearch(line) == Contains(line, CUST_ACCT_SEARCH_STR)
IsWildcardRun == Len(argv) = 1 /\ Contains(argv[1], <<STAR>>)

\* the files identified by what they were before the first invocation
FileIds(f) == {f[p].id : p \in DOMAIN f}

\* the extension of a basename: from its last dot onward, or empty
Extension(nm) ==
    LET k == RFindChar(nm, DOT) IN
    IF k = 0 THEN <<>> ELSE SubSeq(nm, k, Len(nm))

\* the path of basename `prefix + basename(p)` in p's directory, written out
Prefixed(p, prefix) ==
    IF Len(PathParts(p)) <= 1 THEN prefix \o PathName(p)
    ELSE PathParent(p) \o <<SEP>> \o prefix \o PathName(p)

\* C1: a scan that reads a line holding the stop marker ends on that line with
\* the empty token, whatever the verbose flag and whatever else the line
\* holds, and the file is not renamed.
C1_StopMarkerEndsScan ==
    \A k \in 1..Len(scanned.lines) :
        (k <= scanned.last /\ HasStop(scanned.lines[k]))
            => /\ scanned.last = k
               /\ scanned.cust_name = <<>>
               /\ ~scanned.renamed

\* C2: a processed path with a non-empty token T whose rename did not fail is
\* either untouched with T already in its basename, or renamed to the basename
\* T + "_" + old basename; the test looks at the basename alone.
C2_RenamedOrBasenameHadToken ==
    (scanned.cust_name # <<>> /\ ~scanned.aborted)
        => LET T    == scanned.cust_name
               base == PathName(scanned.fn)
           IN \/ /\ Contains(base, T)
                 /\ ~scanned.renamed
              \/ /\ ~Contains(base, T)
                 /\ scanned.renamed
                 /\ PathName(renames[Len(renames)].dst) = T \o <<USCORE>> \o base

\* C3: when the processing of some entry fails (the scan or the rename), the
\* run still takes every later entry and ends with exit status 0.
C3_FailureDoesNotAbort ==
    (pc = "exited" /\ failed # {}) => (status = 0 /\ i = Len(files) + 1)

\* C4: running the same command line a second time leaves the files as the
\* first run left them.
C4_SecondRunChangesNothing ==
    (run = 2 /\ pc = "exited") => fs = fsRun1

\* C5: in every state the files are the files there were before the run; none
\* has been created or deleted, also when a rename's destination existed.
C5_NoFileCreatedOrDeleted == FileIds(fs) = FileIds(fs0)

\* C6: for a single wildcard argument the resolver returns exactly the paths
\* of the children of the argument's directory part (the working directory
\* when it has none) that match the pattern, each an existing path.
C6_ResolverReturnsExistingPaths ==
    (pc = "loop" /\ i = 1 /\ IsWildcardRun)
        => /\ \A k \in 1..Len(files) : PathOf(files[k]) \in DOMAIN fs \cup Dirs
           /\ {PathOf(files[k]) : k \in 1..Len(files)}
                = {q \in DOMAIN fs \cup (Dirs \ {<<DOT>>}) :
                      /\ PathParent(q) = PathParent(argv[1])
                      /\ fnmatch(PathName(q), PathName(argv[1]))}

\* C7: every rename keeps the parent directory and the extension of the file,
\* for every non-empty token.
C7_RenameKeepsParentAndExtension ==
    \A k \in 1..Len(renames) :
        /\ PathParent(renames[k].dst) = PathParent(renames[k].src)
        /\ Extension(PathName(renames[k].dst)) = Extension(PathName(renames[k].src))

\* C9: within one invocation no file is renamed twice.
C9_AtMostOneRenamePerFile ==
    \A a, b \in 1..Len(renames) :
        (a # b /\ renames[a].run = renames[b].run) => renames[a].id # renames[b].id

\* C10: the verbose flag changes neither the token the scanner returns for an
\* entry nor the files and the exit status the loop ends with.
C10_VerboseOnlyTraces ==
    (pc = "loop" /\ i = 1)
        => /\ \A k \in 1..Len(files) :
                file_load_and_search(TRUE, fs, files[k]).cust_name
                    = file_load_and_search(FALSE, fs, files[k]).cust_name
           /\ main_loop(TRUE, fs, files, 1, replaces) = main_loop(FALSE, fs, files, 1, replaces)

\* the single-path invocation of the happy-path scenario: one literal argument
\* naming a file whose first line with a marker is <X>CAN</X><Y>V</Y>, the
\* stop marker on a later line
IsElemLine(line) == \E V \in {TokA, TokD} : line = ElemLine(V)
HappyLines(lines) ==
    \E k \in 1..Len(lines) :
        /\ IsElemLine(lines[k])
        /\ \A j \in 1..(k - 1) : ~HasStop(lines[j]) /\ ~HasSearch(lines[j])
HappyRunEnded ==
    /\ run = 1
    /\ pc = "exited"
    /\ Len(argv) = 1
    /\ argv[1] \in DOMAIN fs0
    /\ HappyLines(Contents(fs0[argv[1]].kind))

\* C8 as stated: on the happy path the token is the value V of the element
\* after the marker element, the file is renamed to V_<old basename>, exit 0.
C8_TokenIsValueElement ==
    HappyRunEnded
        => /\ status = 0
           /\ scanned.cust_name = TokA
           /\ Prefixed(argv[1], TokA \o <<USCORE>>) \in DOMAIN fs

\* C8 amended: on the happy path the token is the text between the first ">"
\* and the next "<" of the marker line, which is the marker text itself; the
\* file is renamed to `Customer Acct Number_<old basename>` in its directory
\* and the exit status is 0.
C8_TokenIsMarkerText ==
    HappyRunEnded
        => /\ status = 0
           /\ scanned.cust_name = CUST_ACCT_SEARCH_STR
           /\ argv[1] \notin DOMAIN fs
           /\ Prefixed(argv[1], CUST_ACCT_SEARCH_STR \o <<USCORE>>) \in DOMAIN fs
           /\ fs[Prefixed(argv[1], CUST_ACCT_SEARCH_STR \o <<USCORE>>)].id = argv[1]
           /\ FileIds(fs) = FileIds(fs0)

C8_Witness == HappyRunEnded /\ scanned.renamed /\ status = 0

====
